---- MODULE Spec2Model ----
(***************************************************************************)
(* GameshiftWalletAdapter: the popup handshake of connect(), disconnect(), *)
(* the identity exchange and the events the browser delivers to them.      *)
(*                                                                         *)
(* One connect() call that starts a handshake is an "attempt".  The        *)
(* closure variables of its promise executor (isResolved,                  *)
(* closedCheckCount) are kept per attempt; the adapter's fields            *)
(* (_messageHandler, _popupCheckInterval, _popup, ...) are shared.  The    *)
(* window keeps its own set of registered listeners and running timers:    *)
(* overwriting a field does not unregister what it named.                  *)
(*                                                                         *)
(* JavaScript runs one turn at a time.  A handler that settles the         *)
(* handshake promise is followed, in the same turn, by the continuation of *)
(* connect() after `await connectionPromise` (a microtask).  When the      *)
(* promise is rejected inside the synchronous part of connect() (popup     *)
(* blocked), the caller's synchronous code may call the adapter again      *)
(* before that microtask runs; events of the browser may not.              *)
(*                                                                         *)
(* The listeners the host application attaches to the adapter's            *)
(* notifications are not modelled: emit() records the notification.        *)
(* The signing service (MetaKeep) and the ledger client are the            *)
(* environment: a signing call is in flight from the request until the     *)
(* service answers, and a submission is recorded when it is made.          *)
(* `closed` of a window handle is readable across origins, so the catch    *)
(* block of the poll (line 227) is never entered.                          *)
(***************************************************************************)
EXTENDS Naturals, Sequences, FiniteSets, TLC

\* ---------------------------------------------------------------- bounds
MaxAttempts == 2
MaxClosedChecks == 3
\* Attempts in the behaviours that also call autoConnect() and the signer.
ApiAttempts == 1
\* Signing calls in flight at a time.
MaxCalls == 1
\* Transactions handed to one signAllTransactions().
MaxTxs == 2

\* ------------------------------------------------------ program constants
ClosedChecksNeeded == 3

Attempts == 1..MaxAttempts

PortalUrl == "http://localhost:3000"
Origins == {PortalUrl, "http://localhost:3000/"}

ErrUnsupported == "WalletConnectionError: Wallet is not supported in this environment"
ErrPopupBlocked == "WalletConnectionError: Failed to open popup - it may be blocked by the browser"
ErrUserClosed == "WalletConnectionError: User closed the authentication popup"
ErrAuthDefault == "WalletConnectionError: Authentication failed"
ErrPortal == "WalletConnectionError: access_denied"
ErrPublicKey == "WalletPublicKeyError"
ErrNotConnected == "WalletNotConnectedError"
ErrNoEmail == "WalletNotConnectedError: User email not available"
ErrSigner == "Error: signing service"
ErrAddSignature == "Error: addSignature"
ErrSerialize == "Error: serialize"
ErrTypeError == "TypeError"

SignOps == {"signTransaction", "signAllTransactions", "signMessage"}
CallOps == SignOps \cup {"sendTransaction"}

\* Transaction objects, and the signatures the service may answer with:
\* strings of hexadecimal digits behind "0x", here as sequences of characters.
TxIds == 1..MaxTxs
HexDigits == <<"0", "1", "2", "3", "4", "5", "6", "7",
               "8", "9", "a", "b", "c", "d", "e", "f">>
SignatureBytes == {<<10>>, <<171>>, <<255>>}
NoSignature == <<>>

\* Key strings the portal may send, and the tokens.
KeyStrings == {"base58-key-1", "not-a-valid-key"}
Tokens == {"tkn1"}

\* new PublicKey(str): the parsed key, or "invalid" when the constructor throws.
PublicKey(str) ==
    IF str = "base58-key-1" THEN "PublicKey#1" ELSE "invalid"

\* GameshiftAuthMessage events, as the window delivers them.
NoMsg == [origin |-> "none", type |-> "none", hasData |-> FALSE,
          publicKey |-> "none", token |-> "none", error |-> "none"]

Messages ==
    { [NoMsg EXCEPT !.origin = o, !.type = "gameshift:auth:success",
                    !.hasData = TRUE, !.publicKey = k, !.token = t]
        : o \in Origins, k \in KeyStrings, t \in Tokens }
    \cup { [NoMsg EXCEPT !.origin = o, !.type = "gameshift:auth:success"]
            : o \in Origins }
    \cup { [NoMsg EXCEPT !.origin = o, !.type = "gameshift:auth:error", !.error = e]
            : o \in Origins, e \in {"none", "access_denied"} }
    \cup { [NoMsg EXCEPT !.origin = o, !.type = "gameshift:auth:closed"]
            : o \in Origins }

\* Bodies the exchange endpoint may answer with (response.json()).
ExchangeBodies == {"unparsable", "no-user", "", "user@example.com"}

VARIABLES
    readyState,          \* _readyState
    connecting,          \* _connecting
    publicKey,           \* _publicKey ("null" when absent)
    token,               \* _token
    email,               \* _email
    messageHandler,      \* _messageHandler: 0, or the attempt whose closure it is
    popupCheckInterval,  \* _popupCheckInterval: 0, or the attempt whose timer it is
    popup,               \* _popup: "null", or the window's state "open" / "closed"
    listeners,           \* attempts whose handler is registered on the window
    timers,              \* attempts whose interval is running
    isResolved,          \* per attempt: the executor's isResolved
    closedCheckCount,    \* per attempt: the executor's closedCheckCount
    promise,             \* per attempt: connectionPromise
    pc,                  \* per attempt: where its connect() call stands
    parsedPublicKey,     \* per attempt: the local parsedPublicKey
    result,              \* per attempt: how its connect() call ended
    emits,               \* notifications emitted by the last step, in order
    last,                \* the last step: operation, input, outcome
    closedRun,           \* per attempt: its timer's latest run of ticks that saw the popup closed
    settles,             \* per attempt: calls of resolve / reject
    cleanups,            \* per attempt: _cleanup() calls of its completion paths
    calls,               \* per operation: its calls awaiting the signing service
    submitted,           \* sendRawTransaction calls made by the last step
    transactions,        \* signAllTransactions(): its argument
    signatures,          \* signAllTransactions(): the service's answer
    signedTransactions,  \* signAllTransactions(): how it ended, what it returned
    carried              \* per transaction object: the signature added to it

vars == <<readyState, connecting, publicKey, token, email, messageHandler,
          popupCheckInterval, popup, listeners, timers, isResolved,
          closedCheckCount, promise, pc, parsedPublicKey, result, emits, last,
          closedRun, settles, cleanups, calls, submitted,
          transactions, signatures, signedTransactions, carried>>

\* The adapter, the window and the attempts: what the program itself holds.
progVars == <<readyState, connecting, publicKey, token, email, messageHandler,
              popupCheckInterval, popup, listeners, timers, isResolved,
              closedCheckCount, promise, pc, parsedPublicKey, result>>

Pending == [st |-> "pending", publicKey |-> "none", token |-> "none", err |-> "none"]

\* The current state as one record, so that the code's statements compose.
St ==
    [readyState |-> readyState, connecting |-> connecting, publicKey |-> publicKey,
     token |-> token, email |-> email, messageHandler |-> messageHandler,
     popupCheckInterval |-> popupCheckInterval, popup |-> popup,
     listeners |-> listeners, timers |-> timers, isResolved |-> isResolved,
     closedCheckCount |-> closedCheckCount, promise |-> promise, pc |-> pc,
     parsedPublicKey |-> parsedPublicKey, result |-> result, emits |-> <<>>,
     closedRun |-> closedRun, settles |-> settles, cleanups |-> cleanups,
     calls |-> calls, submitted |-> 0]

Commit(s, l) ==
    /\ readyState' = s.readyState
    /\ connecting' = s.connecting
    /\ publicKey' = s.publicKey
    /\ token' = s.token
    /\ email' = s.email
    /\ messageHandler' = s.messageHandler
    /\ popupCheckInterval' = s.popupCheckInterval
    /\ popup' = s.popup
    /\ listeners' = s.listeners
    /\ timers' = s.timers
    /\ isResolved' = s.isResolved
    /\ closedCheckCount' = s.closedCheckCount
    /\ promise' = s.promise
    /\ pc' = s.pc
    /\ parsedPublicKey' = s.parsedPublicKey
    /\ result' = s.result
    /\ emits' = s.emits
    /\ closedRun' = s.closedRun
    /\ settles' = s.settles
    /\ cleanups' = s.cleanups
    /\ calls' = s.calls
    /\ submitted' = s.submitted
    /\ UNCHANGED <<transactions, signatures, signedTransactions, carried>>
    /\ last' = l

\* What the last step was: the operation, and for a message its origin, its
\* type and whether it carried data (of a foreign origin, the origin alone).
Step(op, m, ret) ==
    [op |-> op, ret |-> ret, origin |-> m.origin,
     type |-> IF m.origin = PortalUrl THEN m.type ELSE "none",
     hasData |-> m.origin = PortalUrl /\ m.hasData]

Init ==
    /\ readyState \in {"Unsupported", "Loadable"}
    /\ connecting = FALSE
    /\ publicKey = "null"
    /\ token = "null"
    /\ email = "null"
    /\ popup = "null"
    /\ messageHandler = 0
    /\ popupCheckInterval = 0
    /\ listeners = {}
    /\ timers = {}
    /\ isResolved = [a \in Attempts |-> FALSE]
    /\ closedCheckCount = [a \in Attempts |-> 0]
    /\ promise = [a \in Attempts |-> Pending]
    /\ pc = [a \in Attempts |-> "unused"]
    /\ parsedPublicKey = [a \in Attempts |-> "null"]
    /\ result = [a \in Attempts |-> "pending"]
    /\ emits = <<>>
    /\ last = Step("new", NoMsg, "none")
    /\ closedRun = [a \in Attempts |-> 0]
    /\ settles = [a \in Attempts |-> 0]
    /\ cleanups = [a \in Attempts |-> 0]
    /\ calls = [op \in CallOps |-> 0]
    /\ submitted = 0
    /\ transactions = <<>>
    /\ signatures = <<>>
    /\ signedTransactions = [st |-> "none", value |-> <<>>]
    /\ carried = [t \in TxIds |-> NoSignature]

\* ------------------------------------------------------------ the code

\* `this.connected` (the base class's getter): a public key is present.
Connected(s) == s.publicKey # "null"

\* A connect() that does not look at the connecting flag.
ConnectIsNoOp_OnlyConnected(s) == Connected(s)

\* connect(), line 138: `if (this.connected || this.connecting) return;`
ConnectIsNoOp(s) == Connected(s) \/ s.connecting

\* A handler that accepts every origin.
OriginAccepted_Any(m) == TRUE

\* _messageHandler, line 161: `event.origin !== this._portalUrl` is ignored.
OriginAccepted(m) == m.origin = PortalUrl

\* The poll, line 218: `closedCheckCount >= 3 && !isResolved`.
ClosedConfirmed(count, resolved) == count >= ClosedChecksNeeded /\ ~resolved

\* this.emit(type, payload), from the code of attempt a (0: no attempt).
Emit(s, type, a, payload) ==
    [s EXCEPT !.emits = Append(@, [type |-> type, attempt |-> a, payload |-> payload])]

\* _cleanup(), the guards at lines 398, 403 and 408-410: the calls it makes
\* to removeEventListener, clearInterval and close.
Releases(s) ==
    [listener |-> IF s.messageHandler # 0 THEN {s.messageHandler} ELSE {},
     timer |-> IF s.popupCheckInterval # 0 THEN {s.popupCheckInterval} ELSE {},
     closes |-> s.popup = "open"]

\* A _cleanup() that releases but keeps the fields.
Cleanup_KeepsFields(s) ==
    [s EXCEPT !.listeners = @ \ {s.messageHandler},
              !.timers = @ \ {s.popupCheckInterval},
              !.popup = IF @ = "null" THEN "null" ELSE "closed"]

\* _cleanup(): releases what the adapter's fields name, and clears the fields.
Cleanup(s) ==
    [s EXCEPT !.listeners = @ \ {s.messageHandler},
              !.messageHandler = 0,
              !.timers = @ \ {s.popupCheckInterval},
              !.popupCheckInterval = 0,
              !.popup = "null"]

\* _cleanup() called from a completion path of attempt a.
CleanupBy(s, a) == [Cleanup(s) EXCEPT !.cleanups[a] = @ + 1]

\* resolve(...) / reject(...) of attempt a's connectionPromise: a promise
\* keeps its first settlement.
Settle(s, a, p) ==
    [s EXCEPT !.promise[a] = IF @.st = "pending" THEN p ELSE @,
              !.settles[a] = @ + 1]

Resolved(k, t) == [st |-> "resolved", publicKey |-> k, token |-> t, err |-> "none"]
Rejected(e) == [st |-> "rejected", publicKey |-> "none", token |-> "none", err |-> e]

\* connect(): `finally { this._connecting = false; }`
Finally(s) == [s EXCEPT !.connecting = FALSE]

\* A catch block that re-raises without the error notification.
CatchAndThrow_Silent(s, a, err) ==
    Finally([s EXCEPT !.result[a] = err, !.pc[a] = "done"])

\* connect(): `catch (error) { this.emit('error', error); throw error; }`,
\* then the finally block: the call of attempt a rejects with err.
CatchAndThrow(s, a, err) ==
    Finally(Emit([s EXCEPT !.result[a] = err, !.pc[a] = "done"], "error", a, err))

\* connect(), lines 242-243: the Session is populated with the parsed key.
PopulateSession(s, a, key, tk) ==
    [s EXCEPT !.publicKey = key, !.token = tk, !.parsedPublicKey[a] = key]

\* An exchange that runs detached: connect() goes on to line 263 at once.
StartExchange_Detached(s, a) ==
    Finally(Emit([s EXCEPT !.result[a] = "resolved", !.pc[a] = "awaitFetch"],
                 "connect", a, s.parsedPublicKey[a]))

\* connect(), lines 246-253: the exchange request is sent and awaited.
StartExchange(s, a) == [s EXCEPT !.pc[a] = "awaitFetch"]

\* connect(), line 263 and the finally block: the call of attempt a resolves.
EmitConnect(s, a) ==
    Finally(Emit([s EXCEPT !.result[a] = "resolved", !.pc[a] = "done"],
                 "connect", a, s.parsedPublicKey[a]))

\* A continuation that stores the key string as it came, unvalidated.
AfterHandshake_Unvalidated(s, a) ==
    LET p == s.promise[a]
    IN  IF p.st = "rejected" THEN CatchAndThrow(s, a, p.err)
        ELSE StartExchange(PopulateSession(s, a, p.publicKey, p.token), a)

\* A continuation that stores the token before it validates the key.
AfterHandshake_TokenFirst(s, a) ==
    LET p == s.promise[a]
        key == PublicKey(p.publicKey)
    IN  IF p.st = "rejected" THEN CatchAndThrow(s, a, p.err)
        ELSE IF key = "invalid"
             THEN CatchAndThrow([s EXCEPT !.token = p.token], a, ErrPublicKey)
        ELSE StartExchange(PopulateSession(s, a, key, p.token), a)

\* connect(), lines 233-253: the continuation after `await connectionPromise`.
AfterHandshake(s, a) ==
    LET p == s.promise[a]
        key == PublicKey(p.publicKey)
    IN  IF p.st = "rejected" THEN CatchAndThrow(s, a, p.err)
        ELSE IF key = "invalid" THEN CatchAndThrow(s, a, ErrPublicKey)
        ELSE StartExchange(PopulateSession(s, a, key, p.token), a)

\* A completion path of attempt a: isResolved = true; this._cleanup();
\* resolve / reject.
Complete(s, a, p) ==
    Settle(CleanupBy([s EXCEPT !.isResolved[a] = TRUE], a), a, p)

\* A success case that does not look for the data.
OnSuccess_WithoutData(s, a, m) ==
    IF ~s.isResolved[a]
    THEN Complete(s, a, Resolved(m.publicKey, m.token))
    ELSE s

\* case 'gameshift:auth:success', lines 168-177.
OnSuccess(s, a, m) ==
    IF m.hasData /\ ~s.isResolved[a]
    THEN Complete(s, a, Resolved(m.publicKey, m.token))
    ELSE s

\* An error case that does not look at isResolved.
OnError_Unguarded(s, a, m) ==
    Complete(s, a, Rejected(IF m.error = "none" THEN ErrAuthDefault ELSE ErrPortal))

\* case 'gameshift:auth:error', lines 179-185.
OnError(s, a, m) ==
    IF ~s.isResolved[a]
    THEN Complete(s, a, Rejected(IF m.error = "none" THEN ErrAuthDefault ELSE ErrPortal))
    ELSE s

\* A closed case that takes the portal's word for it.
OnClosed_Rejects(s, a, m) ==
    IF ~s.isResolved[a] THEN Complete(s, a, Rejected(ErrUserClosed)) ELSE s

\* case 'gameshift:auth:closed', lines 187-190: ignored.
OnClosed(s, a, m) == s

\* _messageHandler of attempt a, lines 159-192.
MessageHandler(s, a, m) ==
    IF ~OriginAccepted(m) THEN s
    ELSE CASE m.type = "gameshift:auth:success" -> OnSuccess(s, a, m)
           [] m.type = "gameshift:auth:error" -> OnError(s, a, m)
           [] m.type = "gameshift:auth:closed" -> OnClosed(s, a, m)
           [] OTHER -> s

\* The microtask that follows a handler: if the handler settled the promise
\* attempt a awaits, connect() continues.
Continue(s, a) ==
    IF s.pc[a] = "awaitPromise" /\ s.promise[a].st # "pending"
    THEN AfterHandshake(s, a) ELSE s

\* The window dispatches one message event to the listeners registered when
\* the dispatch began, in registration order; one removed meanwhile is skipped.
RECURSIVE Dispatch(_, _, _)
Dispatch(s, todo, m) ==
    IF todo = {} THEN s
    ELSE LET a == CHOOSE x \in todo : \A y \in todo : x <= y
         IN  Dispatch(IF a \in s.listeners THEN Continue(MessageHandler(s, a, m), a) ELSE s,
                      todo \ {a}, m)

\* What a tick of attempt a's timer saw: the run of consecutive ticks that saw
\* the popup closed grows, or ends.
Observe(s, a, closed) ==
    [s EXCEPT !.closedRun[a] = IF closed THEN @ + 1 ELSE 0]

\* A poll that never resets its count.
PollTick_NoReset(s, a) ==
    IF s.popup = "closed"
    THEN LET t == [s EXCEPT !.closedCheckCount[a] = @ + 1]
         IN  IF ClosedConfirmed(t.closedCheckCount[a], t.isResolved[a])
             THEN Complete(t, a, Rejected(ErrUserClosed))
             ELSE t
    ELSE s

\* The setInterval callback of attempt a, lines 212-230.
PollTick(s, a) ==
    IF s.popup = "closed"
    THEN LET t == [s EXCEPT !.closedCheckCount[a] = @ + 1]
         IN  IF ClosedConfirmed(t.closedCheckCount[a], t.isResolved[a])
             THEN Complete(t, a, Rejected(ErrUserClosed))
             ELSE t
    ELSE [s EXCEPT !.closedCheckCount[a] = 0]

\* A disconnect() that always notifies.
DisconnectBody_AlwaysEmits(s) ==
    LET c == Cleanup(s)
        d == [c EXCEPT !.publicKey = "null", !.token = "null", !.email = "null"]
    IN  Emit(d, "disconnect", 0, "none")

\* disconnect(), lines 272-284.
DisconnectBody(s) ==
    LET c == Cleanup(s)
        wasConnected == s.publicKey # "null"
        d == [c EXCEPT !.publicKey = "null", !.token = "null", !.email = "null"]
    IN  IF wasConnected THEN Emit(d, "disconnect", 0, "none") ELSE d

\* An executor that rejects a blocked popup without cleaning up.
StartAttempt_BlockedKeepsListener(s, a, opened) ==
    LET r == [s EXCEPT !.connecting = TRUE,
                       !.isResolved[a] = FALSE,
                       !.messageHandler = a,
                       !.listeners = @ \cup {a},
                       !.popup = IF opened THEN "open" ELSE "null",
                       !.pc[a] = "awaitPromise"]
    IN  IF ~opened
        THEN Settle(r, a, Rejected(ErrPopupBlocked))
        ELSE [r EXCEPT !.closedCheckCount[a] = 0,
                       !.popupCheckInterval = a,
                       !.timers = @ \cup {a}]

\* connect(), lines 144-231: the attempt starts; the executor runs.
StartAttempt(s, a, opened) ==
    LET r == [s EXCEPT !.connecting = TRUE,
                       !.isResolved[a] = FALSE,
                       !.messageHandler = a,
                       !.listeners = @ \cup {a},
                       !.popup = IF opened THEN "open" ELSE "null",
                       !.pc[a] = "awaitPromise"]
    IN  IF ~opened
        THEN Settle(Cleanup(r), a, Rejected(ErrPopupBlocked))
        ELSE [r EXCEPT !.closedCheckCount[a] = 0,
                       !.popupCheckInterval = a,
                       !.timers = @ \cup {a}]

\* The exchange answered: `data.user?.email || null`.
EmailOf(body) == IF body \in {"no-user", ""} THEN "null" ELSE body

\* A connect() without the guard for an environment that has no window.
IsUnsupported_Never(s) == FALSE

\* connect(), line 140: `this._readyState === WalletReadyState.Unsupported`.
IsUnsupported(s) == s.readyState = "Unsupported"

\* A signer that asks the service without looking at the email.
SignPrecondition_KeyOnly(s) ==
    IF s.publicKey = "null" THEN ErrNotConnected ELSE "ok"

\* signTransaction / signAllTransactions / signMessage, their first two
\* lines (303-304, 323-324, 358-359): what they throw, or "ok".
SignPrecondition(s) ==
    IF s.publicKey = "null" THEN ErrNotConnected
    ELSE IF s.email = "null" THEN ErrNoEmail
    ELSE "ok"

\* The catch block of the four operations: emit('error', error); throw error.
EmitAndThrow(s, err) == Emit(s, "error", 0, err)

\* A signing operation up to its await of the service.
SignRequestBody(s, op) ==
    LET e == SignPrecondition(s)
    IN  IF e # "ok" THEN EmitAndThrow(s, e)
        ELSE [s EXCEPT !.calls[op] = @ + 1]

\* What a signing operation ends with once the service answered:
\* the service threw; or addSignature threw (lines 312, 343-346: always
\* when this._publicKey is null by now, possibly otherwise); or "ok".
\* signMessage (line 371) adds no signature.
SignOutcome(s, op, answer) ==
    IF answer = "threw" THEN ErrSigner
    ELSE IF op # "signMessage" /\ (s.publicKey = "null" \/ answer = "unusable")
         THEN ErrAddSignature
    ELSE "ok"

\* A signing operation after its await of the service.
SignContinue(s, op, answer) ==
    LET e == SignOutcome(s, op, answer)
        r == [s EXCEPT !.calls[op] = @ - 1]
    IN  IF e # "ok" THEN EmitAndThrow(r, e) ELSE r

\* sendTransaction() up to the await at line 293. The rejection of a
\* signTransaction() that threw before its own await is caught one
\* microtask later by lines 295-298, which read no state.
SendRequestBody(s) ==
    IF s.publicKey = "null" THEN EmitAndThrow(s, ErrNotConnected)
    ELSE LET e == SignPrecondition(s)
         IN  IF e # "ok" THEN EmitAndThrow(EmitAndThrow(s, e), e)
             ELSE [s EXCEPT !.calls["sendTransaction"] = @ + 1]

\* What sendTransaction() ends with after signTransaction() settled.
SendOutcome(s, answer) ==
    LET e == SignOutcome(s, "signTransaction", answer)
    IN  IF e # "ok" THEN e
        ELSE IF answer = "unserializable" THEN ErrSerialize
        ELSE "submitted"

\* A sendTransaction() that hands the ledger whatever it has.
SendContinue_SubmitsAnyway(s, answer) ==
    [s EXCEPT !.calls["sendTransaction"] = @ - 1, !.submitted = 1]

\* sendTransaction() after the await at line 293: signTransaction()'s own
\* catch, then serialize() and sendRawTransaction() at 294, or the catch
\* at 295-298. The promise sendRawTransaction() returns is not awaited.
SendContinue(s, answer) ==
    LET e == SignOutcome(s, "signTransaction", answer)
        r == [s EXCEPT !.calls["sendTransaction"] = @ - 1]
    IN  IF e # "ok" THEN EmitAndThrow(EmitAndThrow(r, e), e)
        ELSE IF answer = "unserializable" THEN EmitAndThrow(r, ErrSerialize)
        ELSE [r EXCEPT !.submitted = 1]

\* String.prototype.slice(n).
Slice(str, n) == SubSeq(str, n + 1, Len(str))

HexValue(c) == (CHOOSE i \in 1..16 : HexDigits[i] = c) - 1

IsHexDigit(c) == \E i \in 1..16 : HexDigits[i] = c

\* Buffer.from(str, 'hex'): one byte per pair of digits, up to the first
\* pair that is not two hexadecimal digits.
RECURSIVE FromHex(_)
FromHex(str) ==
    IF Len(str) < 2 \/ ~IsHexDigit(str[1]) \/ ~IsHexDigit(str[2]) THEN <<>>
    ELSE <<16 * HexValue(str[1]) + HexValue(str[2])>> \o FromHex(Slice(str, 2))

\* A loop that takes the first signature every time.
SignatureIndex_First(signed) == 1

\* Line 345: signatures[signedTransactions.length], counting from 1.
SignatureIndex(signed) == Len(signed) + 1

\* signAllTransactions(), the loop of lines 341-349 over the transactions
\* left, and the return; reading .signature of a missing answer throws.
RECURSIVE SignAllLoop(_, _, _, _)
SignAllLoop(heap, signed, left, answer) ==
    IF left = <<>> THEN [st |-> "returned", value |-> signed, carried |-> heap]
    ELSE IF SignatureIndex(signed) > Len(answer)
         THEN [st |-> "threw", value |-> <<>>, carried |-> heap]
    ELSE SignAllLoop(
            [heap EXCEPT ![Head(left)] = FromHex(Slice(answer[SignatureIndex(signed)], 2))],
            Append(signed, Head(left)), Tail(left), answer)

\* ----------------------------------------------------------- the steps

\* A microtask is queued: the continuation of a connect() whose promise was
\* rejected in its synchronous part.
Microtasks == {a \in Attempts : pc[a] = "awaitPromise" /\ promise[a].st # "pending"}

Unused == {a \in Attempts : pc[a] = "unused"}

\* connect() when connected or connecting: returns; the finally block runs.
ConnectNoOp ==
    /\ ConnectIsNoOp(St)
    /\ Commit(Finally(St), Step("connect", NoMsg, "returned"))

\* connect() in an environment without a window.
ConnectUnsupported ==
    /\ ~ConnectIsNoOp(St)
    /\ IsUnsupported(St)
    /\ Commit(Finally(Emit(St, "error", 0, ErrUnsupported)),
              Step("connect", NoMsg, ErrUnsupported))

\* connect() that starts an attempt; window.open succeeds or not.
ConnectStart ==
    /\ ~ConnectIsNoOp(St)
    /\ ~IsUnsupported(St)
    /\ Unused # {}
    /\ \E opened \in BOOLEAN :
         LET a == CHOOSE x \in Unused : \A y \in Unused : x <= y
         IN  Commit(StartAttempt(St, a, opened),
                    Step("connect", NoMsg, IF opened THEN "opened" ELSE "blocked"))

\* The queued continuation of a connect() whose popup was blocked.
ConnectContinues ==
    \E a \in Microtasks :
        Commit(AfterHandshake(St, a), Step("continue", NoMsg, "none"))

\* disconnect()
Disconnect ==
    \E s \in {DisconnectBody(St)} :
        Commit(s, Step("disconnect", NoMsg, "returned"))

\* A message event reaches the window and is handed to the handlers
\* registered on it; with none registered no code of the adapter runs.
WindowMessage ==
    /\ Microtasks = {}
    /\ listeners # {}
    /\ \E m \in Messages :
         Commit(Dispatch(St, listeners, m), Step("message", m, "none"))

\* An interval fires.
TimerFires ==
    /\ Microtasks = {}
    /\ \E a \in timers :
         /\ popup = "closed" => closedCheckCount[a] < MaxClosedChecks
         /\ Commit(Continue(PollTick(Observe(St, a, popup = "closed"), a), a),
                   Step("tick", NoMsg, "none"))

\* The user closes the popup window.
UserClosesPopup ==
    /\ Microtasks = {}
    /\ popup = "open"
    /\ Commit([St EXCEPT !.popup = "closed"], Step("close", NoMsg, "none"))

\* A redirect inside the popup: the window that reported closed is open again.
PopupRedirects ==
    /\ Microtasks = {}
    /\ popup = "closed"
    /\ Commit([St EXCEPT !.popup = "open"], Step("redirect", NoMsg, "none"))

\* fetch() settles: it threw, or answered with a status.
FetchSettles ==
    /\ Microtasks = {}
    /\ \E a \in Attempts, outcome \in {"threw", "not-ok", "ok"} :
         /\ pc[a] = "awaitFetch"
         /\ Commit(IF outcome = "ok" THEN [St EXCEPT !.pc[a] = "awaitJson"]
                   ELSE EmitConnect(St, a),
                   Step("fetch", NoMsg, IF outcome = "ok" THEN "ok" ELSE "failed"))

\* response.json() settles.
JsonSettles ==
    /\ Microtasks = {}
    /\ \E a \in Attempts, body \in ExchangeBodies :
         /\ pc[a] = "awaitJson"
         /\ Commit(EmitConnect(IF body = "unparsable" THEN St
                               ELSE [St EXCEPT !.email = EmailOf(body)], a),
                   Step("json", NoMsg, IF EmailOf(body) = "null" \/ body = "unparsable"
                                       THEN "failed" ELSE "email"))

\* scopePollingDetectionStrategy's callback, lines 94-98.
Detected ==
    /\ Microtasks = {}
    /\ readyState = "Loadable"
    /\ Commit(Emit([St EXCEPT !.readyState = "Installed"], "readyStateChange", 0, "Installed"),
              Step("detected", NoMsg, "none"))

Next ==
    \/ ConnectNoOp
    \/ ConnectUnsupported
    \/ ConnectStart
    \/ ConnectContinues
    \/ Disconnect
    \/ WindowMessage
    \/ TimerFires
    \/ UserClosesPopup
    \/ PopupRedirects
    \/ FetchSettles
    \/ JsonSettles
    \/ Detected

Spec == Init /\ [][Next]_vars

\* The event loop runs what is due: a queued continuation runs, a running
\* interval fires, a request that was sent settles. Calls of the host
\* application, messages of the portal and acts of the user are not owed.
Fairness ==
    /\ WF_vars(ConnectContinues)
    /\ WF_vars(TimerFires)
    /\ WF_vars(FetchSettles)
    /\ WF_vars(JsonSettles)

LiveSpec == Spec /\ Fairness

\* ------------------------------------- autoConnect() and the signer

\* Answers of the signing service: it throws, or answers with a signature
\* that addSignature refuses, that leaves the transaction unserializable,
\* or that is good.
Answers == {"threw", "unusable", "unserializable", "good"}

InFlight == calls["signTransaction"] + calls["signAllTransactions"]
            + calls["signMessage"] + calls["sendTransaction"]

\* autoConnect(), lines 128-134.
AutoConnect ==
    \/ /\ readyState # "Installed"
       /\ Commit(St, Step("autoConnect", NoMsg, "returned"))
    \/ /\ readyState = "Installed"
       /\ ConnectIsNoOp(St)
       /\ Commit(Finally(St), Step("autoConnect", NoMsg, "returned"))
    \/ /\ readyState = "Installed"
       /\ ~ConnectIsNoOp(St)
       /\ Cardinality(Attempts \ Unused) < ApiAttempts
       /\ \E opened \in BOOLEAN :
            LET a == CHOOSE x \in Unused : \A y \in Unused : x <= y
            IN  Commit(StartAttempt(St, a, opened),
                       Step("autoConnect", NoMsg, IF opened THEN "opened" ELSE "blocked"))

\* connect() that starts an attempt, within this specification's budget.
ApiConnectStart ==
    /\ Cardinality(Attempts \ Unused) < ApiAttempts
    /\ ConnectStart

\* signTransaction(), signAllTransactions() or signMessage() is called.
SignRequest ==
    \E op \in SignOps :
        /\ SignPrecondition(St) = "ok" => InFlight < MaxCalls
        /\ Commit(SignRequestBody(St, op),
                  Step(op, NoMsg, IF SignPrecondition(St) = "ok" THEN "pending"
                                  ELSE SignPrecondition(St)))

\* The signing service answers a signing operation.
SignSettles ==
    /\ Microtasks = {}
    /\ \E op \in SignOps, answer \in Answers \ {"unserializable"} :
         /\ calls[op] > 0
         /\ Commit(SignContinue(St, op, answer),
                   Step("signed", NoMsg, SignOutcome(St, op, answer)))

\* sendTransaction() is called.
SendRequest ==
    /\ SendRequestBody(St).emits = <<>> => InFlight < MaxCalls
    /\ Commit(SendRequestBody(St),
              Step("sendTransaction", NoMsg,
                   IF SendRequestBody(St).emits = <<>> THEN "pending"
                   ELSE SendRequestBody(St).emits[1].payload))

\* The signing service answers the signTransaction() of a sendTransaction().
SendSettles ==
    /\ Microtasks = {}
    /\ calls["sendTransaction"] > 0
    /\ \E answer \in Answers :
         Commit(SendContinue(St, answer),
                Step("sent", NoMsg, SendOutcome(St, answer)))

ApiNext ==
    \/ ConnectNoOp
    \/ ConnectUnsupported
    \/ ApiConnectStart
    \/ ConnectContinues
    \/ Disconnect
    \/ WindowMessage
    \/ TimerFires
    \/ UserClosesPopup
    \/ PopupRedirects
    \/ FetchSettles
    \/ JsonSettles
    \/ Detected
    \/ AutoConnect
    \/ SignRequest
    \/ SignSettles
    \/ SendRequest
    \/ SendSettles

ApiSpec == Init /\ [][ApiNext]_vars

\* ------------------------------------------- signAllTransactions() alone

\* The service's encoding of a signature: "0x", then two digits per byte.
RECURSIVE ToHex(_)
ToHex(bytes) ==
    IF bytes = <<>> THEN <<>>
    ELSE <<HexDigits[(Head(bytes) \div 16) + 1], HexDigits[(Head(bytes) % 16) + 1]>>
         \o ToHex(Tail(bytes))

ServiceSignatures == {<<"0", "x">> \o ToHex(b) : b \in SignatureBytes}

\* Lists of up to n distinct transaction objects.
TxLists ==
    UNION {{l \in [1..n -> TxIds] : \A i, j \in 1..n : l[i] = l[j] => i = j}
            : n \in 0..MaxTxs}

ServiceAnswers == UNION {[1..n -> ServiceSignatures] : n \in 0..MaxTxs}

\* A connected adapter whose identity exchange gave an email, about to
\* sign a list of transactions; the service's answer is already chosen.
SignAllInit ==
    /\ readyState = "Installed"
    /\ connecting = FALSE
    /\ publicKey = "PublicKey#1"
    /\ token = "tkn1"
    /\ email = "user@example.com"
    /\ popup = "null"
    /\ messageHandler = 0
    /\ popupCheckInterval = 0
    /\ listeners = {}
    /\ timers = {}
    /\ isResolved = [a \in Attempts |-> a = 1]
    /\ closedCheckCount = [a \in Attempts |-> 0]
    /\ promise = [a \in Attempts |->
                    IF a = 1 THEN Resolved("base58-key-1", "tkn1") ELSE Pending]
    /\ pc = [a \in Attempts |-> IF a = 1 THEN "done" ELSE "unused"]
    /\ parsedPublicKey = [a \in Attempts |-> IF a = 1 THEN "PublicKey#1" ELSE "null"]
    /\ result = [a \in Attempts |-> IF a = 1 THEN "resolved" ELSE "pending"]
    /\ emits = <<>>
    /\ last = Step("new", NoMsg, "none")
    /\ closedRun = [a \in Attempts |-> 0]
    /\ settles = [a \in Attempts |-> IF a = 1 THEN 1 ELSE 0]
    /\ cleanups = [a \in Attempts |-> IF a = 1 THEN 1 ELSE 0]
    /\ calls = [op \in CallOps |-> 0]
    /\ submitted = 0
    /\ transactions \in TxLists
    /\ signatures \in ServiceAnswers
    /\ signedTransactions = [st |-> "none", value |-> <<>>]
    /\ carried = [t \in TxIds |-> NoSignature]

\* signAllTransactions(transactions), from the answer of the service on.
SignAll ==
    /\ signedTransactions.st = "none"
    /\ SignPrecondition(St) = "ok"
    /\ LET r == SignAllLoop(carried, <<>>, transactions, signatures)
       IN  /\ signedTransactions' = [st |-> r.st, value |-> r.value]
           /\ carried' = r.carried
           /\ emits' = IF r.st = "threw"
                       THEN EmitAndThrow(St, ErrTypeError).emits ELSE <<>>
           /\ last' = Step("signAllTransactions", NoMsg, r.st)
    /\ UNCHANGED <<progVars, closedRun, settles, cleanups, calls, submitted,
                   transactions, signatures>>

SignAllSpec == SignAllInit /\ [][SignAll]_vars

\* ------------------------------------------------------------ the claims

\* The notifications of the last step that attempt a's code emitted.
EmittedBy(type, a) ==
    {i \in 1..Len(emits) : emits[i].type = type /\ emits[i].attempt = a}

Emitted(type) == {i \in 1..Len(emits) : emits[i].type = type}

\* The attempts whose handshake promise is unsettled.
Unsettled == {a \in Attempts : pc[a] = "awaitPromise" /\ promise[a].st = "pending"}

ExchangePending(a) == pc[a] \in {"awaitFetch", "awaitJson"}

\* C1: a connect() call made while an earlier attempt's promise is unsettled,
\* or while a Session is present, opens no popup and registers no listener
\* and no timer.
C1_ReentrantConnectStartsNothing ==
    [][(last'.op = "connect" /\ (Unsettled # {} \/ publicKey # "null"))
        => /\ listeners' = listeners
           /\ timers' = timers
           /\ popup' = popup
           /\ pc' = pc]_vars

\* C2: of the completion signals of one attempt, the first one processed
\* settles it and runs cleanup; no later one resolves, rejects or cleans up.
C2_SettledExactlyOnce ==
    \A a \in Attempts :
        /\ settles[a] <= 1
        /\ cleanups[a] <= 1
        /\ isResolved[a] <=> cleanups[a] = 1
        /\ isResolved[a] => settles[a] = 1 /\ promise[a].st # "pending"

\* C2's case: the handler of an attempt that a success message had resolved,
\* still registered, was handed an error message.
C2_Witness ==
    /\ last.op = "message"
    /\ last.type = "gameshift:auth:error"
    /\ \E a \in listeners :
          /\ promise[a].st = "resolved"
          /\ isResolved[a]
          /\ settles[a] = 1
          /\ cleanups[a] = 1

\* C3: a message whose origin is not the portal's changes nothing and emits
\* nothing.
C3_ForeignOriginIgnored ==
    [][(last'.op = "message" /\ last'.origin # PortalUrl)
        => /\ UNCHANGED progVars
           /\ UNCHANGED <<settles, cleanups>>
           /\ emits' = <<>>]_vars

\* C3's case: a foreign message arrived while an attempt was listening.
C3_Witness ==
    /\ last.op = "message"
    /\ last.origin # PortalUrl
    /\ \E a \in Unsettled : a \in listeners

\* C4: an attempt is rejected as closed by the user only at a tick of its timer
\* that is at least the third in a row to see the popup closed.
C4_ClosedOnlyAfterThreeInARow ==
    [][\A a \in Attempts :
        (promise[a].st = "pending" /\ promise'[a].err = ErrUserClosed)
            => /\ last'.op = "tick"
               /\ closedRun'[a] >= ClosedChecksNeeded
               /\ closedCheckCount'[a] = closedRun'[a]]_vars

\* C4's case: an attempt was rejected as closed by the user.
C4_Witness ==
    \E a \in Attempts : promise[a].err = ErrUserClosed /\ last.op = "tick"

\* C5: email and token are present only when publicKey is.
C5_EmailAndTokenOnlyWithKey ==
    /\ email # "null" => publicKey # "null"
    /\ token # "null" => publicKey # "null"

\* C6: a success message with a key that fails validation rejects connect()
\* with the key error, leaves publicKey and token absent and emits no connect
\* notification; publicKey and token are present together or absent together.
C6_InvalidKeyLeavesNoSession ==
    /\ (publicKey = "null") <=> (token = "null")
    /\ \A a \in Attempts :
        /\ (promise[a].st = "resolved" /\ PublicKey(promise[a].publicKey) = "invalid")
              => result[a] = ErrPublicKey /\ parsedPublicKey[a] = "null"
        /\ (\E i \in EmittedBy("error", a) : emits[i].payload = ErrPublicKey)
              => /\ publicKey = "null"
                 /\ token = "null"
                 /\ Emitted("connect") = {}

\* C6's case: a connect() was rejected for an invalid key.
C6_Witness ==
    \E a \in Attempts :
        /\ result[a] = ErrPublicKey
        /\ last.op = "message"
        /\ EmittedBy("error", a) # {}

\* C7: disconnect() clears the Session; it emits one disconnect notification
\* when a Session was present, and none otherwise.
C7_DisconnectClearsAndNotifiesOnce ==
    [][last'.op = "disconnect"
        => /\ publicKey' = "null" /\ token' = "null" /\ email' = "null"
           /\ emits' = IF publicKey # "null"
                       THEN <<[type |-> "disconnect", attempt |-> 0, payload |-> "none"]>>
                       ELSE <<>>]_vars

\* C7's case: disconnect() ended a Session and notified.
C7_Witness ==
    /\ last.op = "disconnect"
    /\ Len(emits) = 1
    /\ \E a \in Attempts : result[a] = "resolved"

\* C8: a failed attempt emits one error notification carrying the failure,
\* rejects connect() with it, and leaves publicKey and token absent and the
\* connecting flag false.
C8_FailureNotifiedOnce ==
    [][\A a \in Attempts :
        (result[a] = "pending" /\ result'[a] \notin {"pending", "resolved"})
            => /\ Cardinality({i \in 1..Len(emits') :
                      emits'[i].type = "error" /\ emits'[i].attempt = a}) = 1
               /\ \A i \in 1..Len(emits') :
                      (emits'[i].type = "error" /\ emits'[i].attempt = a)
                          => emits'[i].payload = result'[a]
               /\ publicKey' = "null"
               /\ token' = "null"
               /\ ~connecting']_vars

\* C8's case: an attempt that had entered Connecting failed and notified.
C8_Witness ==
    \E a \in Attempts :
        /\ result[a] \in {ErrPopupBlocked, ErrUserClosed, ErrPortal, ErrAuthDefault, ErrPublicKey}
        /\ EmittedBy("error", a) # {}

\* C9: when no attempt is pending (none is unsettled, or disconnect() has just
\* run), no listener is registered, no timer runs and no popup is held.
C9_NothingLeftWhenNoAttempt ==
    (Unsettled = {} \/ last.op = "disconnect")
        => /\ listeners = {}
           /\ timers = {}
           /\ popup = "null"
           /\ messageHandler = 0
           /\ popupCheckInterval = 0

C11_FailedExchangeLeavesNoEmail ==
    [][(last'.op \in {"fetch", "json"} /\ last'.ret = "failed")
        => /\ \E a \in Attempts :
                /\ result[a] = "pending"
                /\ result'[a] = "resolved"
                /\ \E i \in 1..Len(emits') :
                      emits'[i].type = "connect" /\ emits'[i].attempt = a
           /\ \A i \in 1..Len(emits') : emits'[i].type # "error"
           /\ publicKey' = publicKey
           /\ token' = token
           /\ email' = "null"]_vars

\* C14: in an environment without a window connect() fails at once with the
\* connection error and nothing starts: the connecting flag stays false, no
\* listener, timer or popup exists, and the Session stays absent.
C14_UnsupportedNeverTransitions ==
    readyState = "Unsupported"
        => /\ ~connecting
           /\ listeners = {} /\ timers = {} /\ popup = "null"
           /\ messageHandler = 0 /\ popupCheckInterval = 0
           /\ publicKey = "null" /\ token = "null" /\ email = "null"
           /\ \A a \in Attempts : pc[a] = "unused"
           /\ last.op = "connect"
                => /\ last.ret = ErrUnsupported
                   /\ emits = <<[type |-> "error", attempt |-> 0, payload |-> ErrUnsupported]>>

\* C14's case: connect() was called in an environment without a window.
C14_Witness ==
    /\ readyState = "Unsupported"
    /\ last.op = "connect"
    /\ last.ret = ErrUnsupported

\* C15: when the popup fails to open the attempt is rejected in the same call
\* with the popup failure, its listener is removed and no timer is started;
\* the continuation of connect() then rejects with that failure and the
\* adapter is Disconnected.
C15_BlockedPopupEndsAttempt ==
    [][/\ (last'.op = "connect" /\ last'.ret = "blocked")
            => \E a \in Attempts :
                 /\ pc[a] = "unused"
                 /\ promise'[a] = Rejected(ErrPopupBlocked)
                 /\ a \notin listeners' /\ a \notin timers'
                 /\ listeners' \subseteq listeners /\ timers' \subseteq timers
                 /\ messageHandler' = 0 /\ popupCheckInterval' = 0
                 /\ popup' = "null"
       /\ \A a \in Attempts :
            (promise[a].err = ErrPopupBlocked /\ result[a] = "pending" /\ pc'[a] # pc[a])
                => /\ last'.op = "continue"
                   /\ result'[a] = ErrPopupBlocked
                   /\ pc'[a] = "done"
                   /\ a \notin listeners' /\ a \notin timers'
                   /\ ~connecting'
                   /\ publicKey' = "null" /\ token' = "null"]_vars

\* C15's case: a connect() whose popup was blocked has been rejected.
C15_Witness ==
    /\ last.op = "continue"
    /\ \E a \in Attempts : result[a] = ErrPopupBlocked /\ pc[a] = "done"

\* C18: a connect() that returns as a no-op leaves the adapter, the window
\* and every attempt as they were, the connecting flag included, and emits
\* nothing.
C18_NoOpConnectChangesNothing ==
    [][(last'.op = "connect" /\ last'.ret = "returned")
        => UNCHANGED progVars /\ emits' = <<>>]_vars

\* C19: publicKey goes from absent to present only in the step of a success
\* message from the portal's origin that carries data and resolves a pending
\* attempt whose handler is registered, with a key that passed validation.
C19_SessionOnlyFromAcceptedSuccess ==
    [][(publicKey = "null" /\ publicKey' # "null")
        => /\ last'.op = "message"
           /\ last'.origin = PortalUrl
           /\ last'.type = "gameshift:auth:success"
           /\ last'.hasData
           /\ \E a \in listeners :
                /\ promise[a].st = "pending"
                /\ promise'[a].st = "resolved"
                /\ PublicKey(promise'[a].publicKey) # "invalid"
                /\ publicKey' = PublicKey(promise'[a].publicKey)
                /\ token' = promise'[a].token]_vars

\* C19's case: a success message has just populated the Session.
C19_Witness ==
    /\ last.op = "message"
    /\ last.type = "gameshift:auth:success"
    /\ publicKey # "null"
    /\ \E a \in Attempts : pc[a] = "awaitFetch" /\ parsedPublicKey[a] = publicKey

\* C20: a closed message from the portal settles nothing and changes nothing.
C20_ClosedMessageIgnored ==
    [][(last'.op = "message" /\ last'.type = "gameshift:auth:closed")
        => /\ UNCHANGED progVars
           /\ UNCHANGED <<settles, cleanups>>
           /\ emits' = <<>>]_vars

\* C20's case: the portal sent closed to the handler of an unsettled attempt.
C20_Witness ==
    /\ last.op = "message"
    /\ last.type = "gameshift:auth:closed"
    /\ \E a \in listeners : promise[a].st = "pending" /\ pc[a] = "awaitPromise"

\* C12: signTransaction, signAllTransactions and signMessage, called while
\* publicKey or email is absent, fail with the not-connected error (with
\* 'User email not available' when only the email is absent), emit exactly
\* one error notification, put no call to the signing service in flight and
\* leave publicKey, token and email as they were.
C12_SignerRefusesWithoutSession ==
    [][\A op \in SignOps :
        (last'.op = op /\ (publicKey = "null" \/ email = "null"))
            => /\ last'.ret = IF publicKey = "null" THEN ErrNotConnected ELSE ErrNoEmail
               /\ emits' = <<[type |-> "error", attempt |-> 0, payload |-> last'.ret]>>
               /\ calls' = calls
               /\ UNCHANGED <<publicKey, token, email>>]_vars

\* C12's case: a signing operation was refused for the missing email.
C12_Witness ==
    /\ last.op \in SignOps
    /\ last.ret = ErrNoEmail
    /\ publicKey # "null"
    /\ email = "null"

\* C16: autoConnect() starts an attempt only when readyState is Installed,
\* changes nothing in any other readiness state, and opens no popup.
C16_AutoConnectOpensNoPopup ==
    [][last'.op = "autoConnect"
        => /\ readyState # "Installed" => UNCHANGED progVars /\ emits' = <<>>
           /\ pc' # pc => readyState = "Installed"
           /\ popup' = "open" => popup = "open"]_vars

\* C17: the ledger client is handed a transaction only in the step in which
\* the signTransaction() of a pending sendTransaction() succeeded, with a
\* public key present; a sendTransaction() without public key, or whose
\* signing failed, submits nothing, emits the failure and rethrows it; no
\* step of sendTransaction() changes publicKey, token or email.
C17_SubmitOnlyAfterSigning ==
    [][/\ submitted' > 0
            => /\ last'.op = "sent" /\ last'.ret = "submitted"
               /\ calls["sendTransaction"] > 0
               /\ calls'["sendTransaction"] = calls["sendTransaction"] - 1
               /\ publicKey # "null"
               /\ emits' = <<>>
       /\ (last'.op = "sendTransaction" /\ publicKey = "null")
            => last'.ret = ErrNotConnected /\ calls' = calls
       /\ (last'.op \in {"sendTransaction", "sent"} /\ last'.ret \notin {"pending", "submitted"})
            => /\ submitted' = 0
               /\ Len(emits') >= 1
               /\ \A i \in 1..Len(emits') :
                     emits'[i].type = "error" /\ emits'[i].payload = last'.ret
       /\ last'.op \in {"sendTransaction", "sent"} => UNCHANGED <<publicKey, token, email>>]_vars

\* C17's case: a signed transaction has just been handed to the ledger client.
C17_Witness ==
    /\ last.op = "sent"
    /\ last.ret = "submitted"
    /\ submitted = 1

\* The bytes an answer of the service stands for.
Denoted(sig) == CHOOSE b \in SignatureBytes : <<"0", "x">> \o ToHex(b) = sig

\* C13: given one signature per transaction, signAllTransactions() returns
\* the transactions it was given, in their order, and the transaction at
\* position i carries the signature at position i of the answer.
C13_SignAllKeepsOrder ==
    (signedTransactions.st # "none" /\ Len(signatures) = Len(transactions))
        => /\ signedTransactions.st = "returned"
           /\ signedTransactions.value = transactions
           /\ \A i \in 1..Len(transactions) :
                 carried[transactions[i]] = Denoted(signatures[i])

\* C13's case: two transactions were signed with two different signatures.
C13_Witness ==
    /\ signedTransactions.st = "returned"
    /\ Len(transactions) = MaxTxs
    /\ Len(signatures) = Len(transactions)
    /\ signatures[1] # signatures[2]

\* The messages of the portal that settle an unsettled attempt.
SettlingMessages ==
    {m \in Messages : /\ m.origin = PortalUrl
                      /\ \/ m.type = "gameshift:auth:success" /\ m.hasData
                         \/ m.type = "gameshift:auth:error"}

\* C21: a success message of the portal without data settles nothing: the
\* adapter, the window and every attempt stay as they were (isResolved false,
\* listener, timer and popup kept), nothing is emitted, and the handler of
\* an unsettled attempt still settles it on a success with data or an
\* error, as its poll does once it has counted the popup closed three times.
C21_SuccessWithoutDataSettlesNothing ==
    [][(last'.op = "message" /\ last'.type = "gameshift:auth:success" /\ ~last'.hasData)
        => /\ UNCHANGED progVars
           /\ UNCHANGED <<settles, cleanups>>
           /\ emits' = <<>>
           /\ \A a \in listeners' :
                (promise'[a].st = "pending" /\ ~isResolved'[a])
                    => /\ \A m \in SettlingMessages :
                            MessageHandler(St, a, m).promise[a].st # "pending"
                       /\ a \in timers'
                            => PollTick([St EXCEPT !.popup = "closed",
                                                   !.closedCheckCount[a] = ClosedChecksNeeded - 1],
                                        a).promise[a].st = "rejected"]_vars

\* C21's case: the portal sent success without data to the handler of an
\* unsettled attempt whose timer and popup exist.
C21_Witness ==
    /\ last.op = "message"
    /\ last.type = "gameshift:auth:success"
    /\ ~last.hasData
    /\ \E a \in listeners :
         /\ promise[a].st = "pending" /\ ~isResolved[a]
         /\ a \in timers
         /\ popup # "null"

NothingHeld(s) ==
    s.messageHandler = 0 /\ s.popupCheckInterval = 0 /\ s.popup = "null"

\* C22: in every state, _cleanup() run twice leaves what one run leaves; run
\* with no listener, timer or popup held it changes nothing; and after one
\* run nothing is held, so that a second one removes no listener, clears no
\* timer and closes no popup.
C22_CleanupIdempotent ==
    /\ Cleanup(Cleanup(St)) = Cleanup(St)
    /\ NothingHeld(St) => Cleanup(St) = St
    /\ NothingHeld(Cleanup(St))
    /\ Releases(Cleanup(St)) = [listener |-> {}, timer |-> {}, closes |-> FALSE]

\* C22's case: the only attempt was cleaned up when it completed, and
\* disconnect() then ran _cleanup() again.
C22_Witness ==
    /\ last.op = "disconnect"
    /\ cleanups[1] = 1
    /\ \A a \in Attempts : a # 1 => pc[a] = "unused"
    /\ NothingHeld(St)

\* C24: whenever a connect notification is emitted the Session is present
\* and its publicKey is the key the notification carries.
C24_ConnectCarriesSessionKey ==
    \A i \in 1..Len(emits) :
        emits[i].type = "connect"
            => publicKey # "null" /\ publicKey = emits[i].payload

\* C25: the connecting flag and the connected condition (publicKey present)
\* are never both true.
C25_ConnectingExcludesConnected ==
    ~(connecting /\ Connected(St))

\* C23: when disconnect() was called while the handshake of an attempt is
\* pending, the connect() call of that attempt eventually settles and the
\* connecting flag eventually is false.
C23_DisconnectEndsPendingConnect ==
    \A a \in Attempts :
        (last.op = "disconnect" /\ a \in Unsettled)
            ~> (result[a] # "pending" /\ ~connecting)

====
